---- MODULE Spec2Model ----
(***************************************************************************)
(* A model of bark_push.hpp: the BarkPush notification client.             *)
(*                                                                         *)
(* Strings are sequences of byte values (0..255); the text of each string  *)
(* literal of the source is given beside its definition.                   *)
(***************************************************************************)
EXTENDS Integers, Sequences, FiniteSets, TLC

(***************************************************************************)
(* String literals of the source.                                          *)
(***************************************************************************)
\* "https://api.day.app/"
DEFAULT_BARK_SERVER == <<104, 116, 116, 112, 115, 58, 47, 47, 97, 112, 105, 46, 100, 97, 121, 46, 97, 112, 112, 47>>
\* "http://"
http_prefix == <<104, 116, 116, 112, 58, 47, 47>>
\* "https://"
https_prefix == <<104, 116, 116, 112, 115, 58, 47, 47>>
\* "push"
PUSH_PATH == <<112, 117, 115, 104>>
\* "Failed to set cURL option: "
ERR_SETOPT == <<70, 97, 105, 108, 101, 100, 32, 116, 111, 32, 115, 101, 116, 32, 99, 85, 82, 76, 32, 111, 112, 116, 105, 111, 110, 58, 32>>
\* "Failed to set cURL callback: "
ERR_SETOPT_CALLBACK == <<70, 97, 105, 108, 101, 100, 32, 116, 111, 32, 115, 101, 116, 32, 99, 85, 82, 76, 32, 99, 97, 108, 108, 98, 97, 99, 107, 58, 32>>
\* "No device keys specified"
ERR_NO_DEVICES == <<78, 111, 32, 100, 101, 118, 105, 99, 101, 32, 107, 101, 121, 115, 32, 115, 112, 101, 99, 105, 102, 105, 101, 100>>
\* "cURL handle not initialized"
ERR_NO_HANDLE == <<99, 85, 82, 76, 32, 104, 97, 110, 100, 108, 101, 32, 110, 111, 116, 32, 105, 110, 105, 116, 105, 97, 108, 105, 122, 101, 100>>
\* "cURL error: "
ERR_CURL == <<99, 85, 82, 76, 32, 101, 114, 114, 111, 114, 58, 32>>
\* "HTTP error "
ERR_HTTP == <<72, 84, 84, 80, 32, 101, 114, 114, 111, 114, 32>>
\* ", Response: "
ERR_HTTP_RESPONSE == <<44, 32, 82, 101, 115, 112, 111, 110, 115, 101, 58, 32>>
\* "Empty response from server"
ERR_EMPTY == <<69, 109, 112, 116, 121, 32, 114, 101, 115, 112, 111, 110, 115, 101, 32, 102, 114, 111, 109, 32, 115, 101, 114, 118, 101, 114>>
\* {"device_keys":[
JSON_OPEN_KEYS == <<123, 34, 100, 101, 118, 105, 99, 101, 95, 107, 101, 121, 115, 34, 58, 91>>
\* ],"title":"
JSON_TITLE == <<93, 44, 34, 116, 105, 116, 108, 101, 34, 58, 34>>
\* ","body":"
JSON_BODY == <<34, 44, 34, 98, 111, 100, 121, 34, 58, 34>>
\* "true"
LIT_true == <<116, 114, 117, 101>>
\* "false"
LIT_false == <<102, 97, 108, 115, 101>>
\* the parameter names and values the convenience variants use
K_url == <<117, 114, 108>>
K_sound == <<115, 111, 117, 110, 100>>
K_group == <<103, 114, 111, 117, 112>>
K_level == <<108, 101, 118, 101, 108>>
K_icon == <<105, 99, 111, 110>>
K_archive == <<97, 114, 99, 104, 105, 118, 101>>
K_autoCopy == <<97, 117, 116, 111, 67, 111, 112, 121>>
K_call == <<99, 97, 108, 108>>
V_critical == <<99, 114, 105, 116, 105, 99, 97, 108>>
V_silence == <<115, 105, 108, 101, 110, 99, 101>>
V_one == <<49>>
V_zero == <<48>>
\* "BarkPush-C++/1.0"
USER_AGENT == <<66, 97, 114, 107, 80, 117, 115, 104, 45, 67, 43, 43, 47, 49, 46, 48>>
\* the fixed title of sendUrl(url): the UTF-8 bytes of its four CJK characters
JUMP_TITLE == <<232, 183, 179, 232, 189, 172, 233, 147, 190, 230, 142, 165>>

(***************************************************************************)
(* Helpers on byte strings.                                                *)
(***************************************************************************)
IsDigit(c) == c \in 48..57

AllDigits(s) == \A i \in 1..Len(s) : IsDigit(s[i])

\* std::string::substr(0, n) == p, guarded by size() >= n
StartsWith(s, p) == Len(s) >= Len(p) /\ SubSeq(s, 1, Len(p)) = p

Contains(s, sub) ==
    \E i \in 1..(Len(s) + 1) :
        i + Len(sub) - 1 <= Len(s) /\ SubSeq(s, i, i + Len(sub) - 1) = sub

\* operator< of std::string: bytewise lexicographic order
RECURSIVE StrLess(_, _)
StrLess(a, b) ==
    IF b = <<>> THEN FALSE
    ELSE IF a = <<>> THEN TRUE
    ELSE IF a[1] # b[1] THEN a[1] < b[1]
    ELSE StrLess(Tail(a), Tail(b))

\* the keys of a std::map in iteration order
RECURSIVE MapOrder(_)
MapOrder(keys) ==
    IF keys = {} THEN <<>>
    ELSE LET k == CHOOSE x \in keys : \A y \in keys \ {x} : StrLess(x, y)
         IN  <<k>> \o MapOrder(keys \ {k})

\* one lowercase hexadecimal digit
HexDigit(d) == IF d < 10 THEN 48 + d ELSE 97 + (d - 10)

\* operator<< of an int under std::hex: the shortest lowercase representation
RECURSIVE ToHex(_)
ToHex(n) == IF n < 16 THEN <<HexDigit(n)>> ELSE ToHex(n \div 16) \o <<HexDigit(n % 16)>>

\* std::setw(w) with std::setfill(fill): pad on the left up to w, never cut
RECURSIVE PadLeft(_, _, _)
PadLeft(s, w, fill) == IF Len(s) >= w THEN s ELSE PadLeft(<<fill>> \o s, w, fill)

\* std::to_string(long)
RECURSIVE ToDecimal(_)
ToDecimal(n) == IF n < 10 THEN <<48 + n>> ELSE ToDecimal(n \div 10) \o <<48 + (n % 10)>>

to_string(n) == IF n < 0 THEN <<45>> \o ToDecimal(0 - n) ELSE ToDecimal(n)

(***************************************************************************)
(* normalizeUrl                                                            *)
(***************************************************************************)
\* normalizeUrl with the "http://" test left out
normalizeUrlHttpsOnly(url) ==
    IF url = <<>> THEN url
    ELSE IF StartsWith(url, https_prefix) THEN url
    ELSE https_prefix \o url

normalizeUrl(url) ==
    IF url = <<>> THEN url
    ELSE IF StartsWith(url, http_prefix) THEN url
    ELSE IF StartsWith(url, https_prefix) THEN url
    ELSE https_prefix \o url

(***************************************************************************)
(* escapeJson                                                              *)
(***************************************************************************)
\* escapeJson's cases with std::setw(4) left out of the \u branch
escapeCharNoPad(c) ==
    CASE c = 34 -> <<92, 34>>
      [] c = 92 -> <<92, 92>>
      [] c = 8  -> <<92, 98>>
      [] c = 12 -> <<92, 102>>
      [] c = 10 -> <<92, 110>>
      [] c = 13 -> <<92, 114>>
      [] c = 9  -> <<92, 116>>
      [] OTHER  -> IF c <= 31 THEN <<92, 117>> \o ToHex(c) ELSE <<c>>

escapeChar(c) ==
    CASE c = 34 -> <<92, 34>>
      [] c = 92 -> <<92, 92>>
      [] c = 8  -> <<92, 98>>
      [] c = 12 -> <<92, 102>>
      [] c = 10 -> <<92, 110>>
      [] c = 13 -> <<92, 114>>
      [] c = 9  -> <<92, 116>>
      [] OTHER  -> IF c <= 31
                   THEN <<92, 117>> \o PadLeft(ToHex(c), 4, 48)
                   ELSE <<c>>

RECURSIVE escapeJson(_)
escapeJson(input) ==
    IF input = <<>> THEN <<>>
    ELSE escapeChar(Head(input)) \o escapeJson(Tail(input))

(***************************************************************************)
(* number_regex: ^[-+]?[0-9]*\.?[0-9]+([eE][-+]?[0-9]+)?$ under            *)
(* std::regex_match (the whole value must match).                          *)
(***************************************************************************)
\* [-+]?  followed by a part that satisfies Rest
StripSign(s) == IF s # <<>> /\ s[1] \in {43, 45} THEN Tail(s) ELSE s

\* [0-9]*\.?[0-9]+
MatchesMantissa(m) ==
    \E i \in 0..Len(m) :
        /\ AllDigits(SubSeq(m, 1, i))
        /\ \/ /\ Len(m) > i
              /\ AllDigits(SubSeq(m, i + 1, Len(m)))
           \/ /\ Len(m) > i + 1
              /\ m[i + 1] = 46
              /\ AllDigits(SubSeq(m, i + 2, Len(m)))

\* [eE][-+]?[0-9]+
MatchesExponent(e) ==
    /\ Len(e) >= 2
    /\ e[1] \in {101, 69}
    /\ LET d == StripSign(Tail(e)) IN d # <<>> /\ AllDigits(d)

number_regex_match(value) ==
    \E k \in 0..Len(value) :
        /\ MatchesMantissa(StripSign(SubSeq(value, 1, k)))
        /\ \/ k = Len(value)
           \/ MatchesExponent(SubSeq(value, k + 1, Len(value)))

(***************************************************************************)
(* The request body of send.                                               *)
(***************************************************************************)
\* the value of one extra parameter as send writes it
emitValue(value) ==
    IF value = LIT_true \/ value = LIT_false THEN value
    ELSE IF number_regex_match(value) THEN value
    ELSE <<34>> \o escapeJson(value) \o <<34>>

\* the device_keys array elements, comma separated
RECURSIVE emitKeys(_, _)
emitKeys(keys, i) ==
    IF i > Len(keys) THEN <<>>
    ELSE (IF i > 1 THEN <<44>> ELSE <<>>)
         \o <<34>> \o escapeJson(keys[i]) \o <<34>>
         \o emitKeys(keys, i + 1)

\* ,"key":value for every parameter in map order
RECURSIVE emitParams(_, _)
emitParams(params, order) ==
    IF order = <<>> THEN <<>>
    ELSE <<44, 34>> \o Head(order) \o <<34, 58>>
         \o emitValue(params[Head(order)])
         \o emitParams(params, Tail(order))

\* processed_params: the url parameter, when present, normalized
processParams(params) ==
    [k \in DOMAIN params |-> IF k = K_url THEN normalizeUrl(params[k]) ELSE params[k]]

buildJson(keys, title, message, params) ==
    LET processed == processParams(params)
    IN  JSON_OPEN_KEYS \o emitKeys(keys, 1)
        \o JSON_TITLE \o escapeJson(title)
        \o JSON_BODY \o escapeJson(message) \o <<34>>
        \o emitParams(processed, MapOrder(DOMAIN processed))
        \o <<125>>

\* the request URL: server_ with a trailing slash, then "push"
pushUrl(server) ==
    (IF server[Len(server)] # 47 THEN server \o <<47>> ELSE server) \o PUSH_PATH

(***************************************************************************)
(* The transport library (libcurl), seen through the calls the client      *)
(* makes.  curl_easy_setopt copies a string option and can fail with       *)
(* CURLE_OUT_OF_MEMORY; a numeric or callback option is stored in place    *)
(* and the values used here are always accepted.  curl_easy_perform ends   *)
(* with any transport outcome.                                             *)
(***************************************************************************)
\* "Out of memory"
STRERROR_OUT_OF_MEMORY == <<79, 117, 116, 32, 111, 102, 32, 109, 101, 109, 111, 114, 121>>
\* "Couldn't connect to server"
STRERROR_COULDNT_CONNECT == <<67, 111, 117, 108, 100, 110, 39, 116, 32, 99, 111, 110, 110, 101, 99, 116, 32, 116, 111, 32, 115, 101, 114, 118, 101, 114>>
\* "Timeout was reached"
STRERROR_OPERATION_TIMEDOUT == <<84, 105, 109, 101, 111, 117, 116, 32, 119, 97, 115, 32, 114, 101, 97, 99, 104, 101, 100>>
\* "No error"
STRERROR_OK == <<78, 111, 32, 101, 114, 114, 111, 114>>

curl_easy_strerror(res) ==
    CASE res = "CURLE_OUT_OF_MEMORY"      -> STRERROR_OUT_OF_MEMORY
      [] res = "CURLE_COULDNT_CONNECT"    -> STRERROR_COULDNT_CONNECT
      [] res = "CURLE_OPERATION_TIMEDOUT" -> STRERROR_OPERATION_TIMEDOUT
      [] OTHER                            -> STRERROR_OK

\* the options whose value curl_easy_setopt copies
CopiedOptions == {"CURLOPT_URL", "CURLOPT_USERAGENT"}

\* the results curl_easy_setopt can give for an option
SetoptResults(option) ==
    IF option \in CopiedOptions THEN {"CURLE_OK", "CURLE_OUT_OF_MEMORY"} ELSE {"CURLE_OK"}

\* a handle as curl_easy_init returns it: libcurl's defaults
FreshHandle ==
    [CURLOPT_URL            |-> <<>>,
     CURLOPT_POST           |-> 0,
     CURLOPT_POSTFIELDS     |-> <<>>,
     CURLOPT_WRITEFUNCTION  |-> "fwrite",
     CURLOPT_CONNECTTIMEOUT |-> 300,
     CURLOPT_TIMEOUT        |-> 0,
     CURLOPT_SSL_VERIFYPEER |-> 1,
     CURLOPT_SSL_VERIFYHOST |-> 2,
     CURLOPT_USERAGENT      |-> <<>>]

\* what curl_easy_perform can report: the result code and, for a completed
\* transfer, the status code and the bytes writeCallback appended
\* "server error"
RESP_SERVER_ERROR == <<115, 101, 114, 118, 101, 114, 32, 101, 114, 114, 111, 114>>
\* {"code":200}
RESP_OK == <<123, 34, 99, 111, 100, 101, 34, 58, 50, 48, 48, 125>>

TransportOutcomes ==
    {[res |-> "CURLE_COULDNT_CONNECT", status |-> 0,   resp |-> <<>>],
     [res |-> "CURLE_OK",              status |-> 500, resp |-> RESP_SERVER_ERROR],
     [res |-> "CURLE_OK",              status |-> 200, resp |-> <<>>],
     [res |-> "CURLE_OK",              status |-> 200, resp |-> RESP_OK]}

(***************************************************************************)
(* State.                                                                  *)
(***************************************************************************)
VARIABLES
    phase,              \* "none": no object; "live": constructed; "failed": the constructor threw
    device_keys_,       \* std::vector<std::string>
    server_,            \* std::string
    curl_handle_,       \* TRUE iff the handle is not null
    last_error_,        \* std::string
    http_status_code_,  \* long
    curl,               \* the options set on the handle
    initialized,        \* the static flag of initCurlGlobal
    globalInits,        \* successful calls of curl_global_init so far
    atexits,            \* registrations of curl_global_cleanup so far
    tpc,                \* per thread: the place inside a construction
    tleft,              \* per thread: constructions still to start
    sslOff,             \* history: disableSslVerification was the last of
                        \* {construction, setDefaultOptions, disableSslVerification}
    call                \* history: the last operation, its inputs and what it did

client == <<phase, device_keys_, server_, curl_handle_, last_error_, http_status_code_, curl>>
process == <<initialized, globalInits, atexits>>
threads == <<tpc, tleft>>
history == <<sslOff, call>>
vars == <<client, process, threads, history>>

EmptyMap == [k \in {} |-> <<>>]

NoCall ==
    [op |-> "none", ret |-> "none", performs |-> 0, setoptFailed |-> FALSE,
     res |-> "none", status |-> 0, resp |-> <<>>,
     title |-> <<>>, message |-> <<>>, arg |-> <<>>,
     reqUrl |-> <<>>, reqBody |-> <<>>, peer |-> 0, host |-> 0]

Op(name) == [NoCall EXCEPT !.op = name]

(***************************************************************************)
(* setCurlOption: the three overloads differ in the text they record.      *)
(***************************************************************************)
\* st = [curl, err]: the handle's options and last_error_
setCurlOption(st, option, value, res) ==
    IF res # "CURLE_OK"
    THEN [st EXCEPT !.err = (IF option = "CURLOPT_WRITEFUNCTION"
                             THEN ERR_SETOPT_CALLBACK ELSE ERR_SETOPT)
                            \o curl_easy_strerror(res)]
    ELSE [st EXCEPT !.curl[option] = value]

\* the baseline options, in the order setDefaultOptions sets them
DefaultOptions ==
    << <<"CURLOPT_CONNECTTIMEOUT", 5>>,
       <<"CURLOPT_TIMEOUT", 10>>,
       <<"CURLOPT_SSL_VERIFYPEER", 1>>,
       <<"CURLOPT_SSL_VERIFYHOST", 2>>,
       <<"CURLOPT_USERAGENT", USER_AGENT>> >>

\* disableSslVerification with the host check left on
DisableOptionsPeerOnly == << <<"CURLOPT_SSL_VERIFYPEER", 0>> >>

\* the options disableSslVerification sets
DisableOptions ==
    << <<"CURLOPT_SSL_VERIFYPEER", 0>>,
       <<"CURLOPT_SSL_VERIFYHOST", 0>> >>

\* the result codes a run of n option calls can meet
ResultChoices(options) ==
    {r \in [1..Len(options) -> {"CURLE_OK", "CURLE_OUT_OF_MEMORY"}] :
        \A i \in 1..Len(options) : r[i] \in SetoptResults(options[i][1])}

RECURSIVE setOptions(_, _, _, _)
setOptions(st, options, results, i) ==
    IF i > Len(options) THEN st
    ELSE setOptions(setCurlOption(st, options[i][1], options[i][2], results[i]),
                    options, results, i + 1)

setDefaultOptions(handle, st, results) ==
    IF ~handle THEN st ELSE setOptions(st, DefaultOptions, results, 1)

disableSslVerification(handle, st, results) ==
    IF handle THEN setOptions(st, DisableOptions, results, 1) ELSE st

(***************************************************************************)
(* initCurlGlobal, run by one thread without interruption.                 *)
(***************************************************************************)
\* g = [initialized, globalInits, atexits]; res is curl_global_init's result
initCurlGlobal(g, res) ==
    IF ~g.initialized
    THEN IF res # "CURLE_OK"
         THEN [ok |-> FALSE, g |-> g]
         ELSE [ok |-> TRUE,
               g  |-> [initialized |-> TRUE,
                       globalInits |-> g.globalInits + 1,
                       atexits     |-> g.atexits + 1]]
    ELSE [ok |-> TRUE, g |-> g]

GlobalInitResults == {"CURLE_OK", "CURLE_FAILED_INIT"}

(***************************************************************************)
(* Construction and destruction.                                           *)
(***************************************************************************)
\* the single-key constructor's member initialisation
singleKey(single_key) == IF single_key # <<>> THEN <<single_key>> ELSE <<>>

\* the vector constructor's member initialisation: device_keys_(multi_keys)
multiKeys(multi_keys) == multi_keys

\* init() after the members are set to keys and server
Construct(op, keys, server, gres, easyOk, results) ==
    /\ phase \in {"none", "failed"}
    /\ LET gi == initCurlGlobal([initialized |-> initialized,
                                 globalInits |-> globalInits,
                                 atexits |-> atexits], gres)
           st == setDefaultOptions(TRUE, [curl |-> FreshHandle, err |-> <<>>], results)
       IN  /\ initialized' = gi.g.initialized
           /\ globalInits' = gi.g.globalInits
           /\ atexits' = gi.g.atexits
           /\ IF gi.ok /\ easyOk
              THEN /\ phase' = "live"
                   /\ device_keys_' = keys
                   /\ server_' = server
                   /\ curl_handle_' = TRUE
                   /\ last_error_' = st.err
                   /\ http_status_code_' = 0
                   /\ curl' = st.curl
              ELSE \* std::runtime_error: no object comes to exist
                   /\ phase' = "failed"
                   /\ device_keys_' = <<>>
                   /\ server_' = <<>>
                   /\ curl_handle_' = FALSE
                   /\ last_error_' = <<>>
                   /\ http_status_code_' = 0
                   /\ curl' = FreshHandle
    /\ sslOff' = FALSE
    /\ call' = Op(op)
    /\ UNCHANGED threads

Destroy ==
    /\ phase = "live"
    /\ phase' = "none"
    /\ device_keys_' = <<>>
    /\ server_' = <<>>
    /\ curl_handle_' = FALSE
    /\ last_error_' = <<>>
    /\ http_status_code_' = 0
    /\ curl' = FreshHandle
    /\ sslOff' = FALSE
    /\ call' = Op("destroy")
    /\ UNCHANGED <<process, threads>>

(***************************************************************************)
(* Identifier management and configuration.                                *)
(***************************************************************************)
addDeviceKey(keys, key) == IF key # <<>> THEN Append(keys, key) ELSE keys

clearDeviceKeys(keys) == <<>>

getDeviceKeys(keys) == keys

(***************************************************************************)
(* send.                                                                   *)
(***************************************************************************)
\* send's checks with the test of device_keys_ left out
precheckHandleOnly(keys, handle) == IF ~handle THEN "CURL_INIT_FAILED" ELSE "ok"

\* the two preconditions, in the order send checks them
precheck(keys, handle) ==
    IF keys = <<>> THEN "NO_DEVICES_SPECIFIED"
    ELSE IF ~handle THEN "CURL_INIT_FAILED"
    ELSE "ok"

\* the options send sets through setCurlOption, in order
SendOptions(url, json_data) ==
    << <<"CURLOPT_URL", url>>,
       <<"CURLOPT_POST", 1>>,
       <<"CURLOPT_POSTFIELDS", json_data>>,
       <<"CURLOPT_WRITEFUNCTION", "writeCallback">> >>

\* send's reading of the outcome with the test for an empty response left out
interpretNoEmptyCheck(t, err, status) ==
    IF t.res # "CURLE_OK"
    THEN [ret |-> "NETWORK_ERROR", status |-> status,
          err |-> ERR_CURL \o curl_easy_strerror(t.res)]
    ELSE IF t.status # 200
    THEN [ret |-> "HTTP_ERROR", status |-> t.status,
          err |-> ERR_HTTP \o to_string(t.status) \o ERR_HTTP_RESPONSE \o t.resp]
    ELSE [ret |-> "SUCCESS", status |-> t.status, err |-> err]

\* what send makes of curl_easy_perform's outcome t; err and status are
\* last_error_ and http_status_code_ as they stand when the transfer ends
interpret(t, err, status) ==
    IF t.res # "CURLE_OK"
    THEN [ret |-> "NETWORK_ERROR", status |-> status,
          err |-> ERR_CURL \o curl_easy_strerror(t.res)]
    ELSE IF t.status # 200
    THEN [ret |-> "HTTP_ERROR", status |-> t.status,
          err |-> ERR_HTTP \o to_string(t.status) \o ERR_HTTP_RESPONSE \o t.resp]
    ELSE IF t.resp = <<>>
    THEN [ret |-> "EMPTY_RESPONSE", status |-> t.status, err |-> ERR_EMPTY]
    ELSE [ret |-> "SUCCESS", status |-> t.status, err |-> err]

\* send past its two checks: st holds the handle's options and last_error_
\* after the option calls, out what send makes of the transfer's outcome t
sendTransfer(in, st, out, t) ==
    /\ last_error_' = out.err
    /\ http_status_code_' = out.status
    \* json_data ends with the call: CURLOPT_POSTFIELDS points at nothing
    /\ curl' = [st.curl EXCEPT !["CURLOPT_POSTFIELDS"] = <<>>]
    /\ call' = [in EXCEPT !.ret = out.ret,
                          !.performs = 1,
                          !.setoptFailed = (st.err # <<>>),
                          !.res = t.res,
                          !.status = t.status,
                          !.resp = t.resp,
                          !.reqUrl = st.curl["CURLOPT_URL"],
                          !.reqBody = st.curl["CURLOPT_POSTFIELDS"],
                          !.peer = st.curl["CURLOPT_SSL_VERIFYPEER"],
                          !.host = st.curl["CURLOPT_SSL_VERIFYHOST"]]

\* the option calls of send, starting from the cleared last_error_, then
\* curl_easy_perform and the reading of its outcome
sendRequest(in, st, t) == sendTransfer(in, st, interpret(t, st.err, 0), t)

\* an early return of send with error code ret and text err
sendRefused(in, ret, err) ==
    /\ last_error_' = err
    /\ http_status_code_' = 0
    /\ curl' = curl
    /\ call' = [in EXCEPT !.ret = ret]

\* send(title, message, params), called as operation op with the caller's
\* argument arg; the library decides the results of the option calls and
\* the outcome of the transfer
send(op, arg, title, message, params) ==
    /\ phase = "live"
    /\ LET in  == [Op(op) EXCEPT !.title = title, !.message = message, !.arg = arg]
           pre == precheck(device_keys_, curl_handle_)
       IN  IF pre = "NO_DEVICES_SPECIFIED" THEN sendRefused(in, pre, ERR_NO_DEVICES)
           ELSE IF pre = "CURL_INIT_FAILED" THEN sendRefused(in, pre, ERR_NO_HANDLE)
           ELSE \E options \in {SendOptions(pushUrl(server_),
                                            buildJson(device_keys_, title, message, params))} :
                \E results \in ResultChoices(options), t \in TransportOutcomes :
                    sendRequest(in, setOptions([curl |-> curl, err |-> <<>>], options, results, 1), t)
    /\ UNCHANGED <<phase, device_keys_, server_, curl_handle_, sslOff, process, threads>>

\* the parameter map sendAdvanced builds
advancedParams(url, sound, group, level, icon, archive, autoCopy) ==
    LET opt(k, v) == IF v # <<>> THEN (k :> v) ELSE EmptyMap
    IN  opt(K_url, normalizeUrl(url)) @@ opt(K_sound, sound) @@ opt(K_group, group)
        @@ opt(K_level, level) @@ opt(K_icon, icon)
        @@ (K_archive :> archive) @@ (K_autoCopy :> autoCopy)

sendAdvanced(op, arg, title, message, url, sound, group, level, icon, archive, autoCopy) ==
    send(op, arg, title, message,
         advancedParams(url, sound, group, level, icon, archive, autoCopy))

sendCopy(title, message) ==
    sendAdvanced("sendCopy", <<>>, title, message, <<>>, <<>>, <<>>, <<>>, <<>>, V_one, V_one)

\* sendUrl(url)
sendUrl1(url) ==
    LET normalizedUrl == normalizeUrl(url)
    IN  sendAdvanced("sendUrl", url, JUMP_TITLE, normalizedUrl, normalizedUrl,
                     <<>>, <<>>, <<>>, <<>>, V_one, V_zero)

\* sendUrl(title, message, url)
sendUrl3(title, message, url) ==
    sendAdvanced("sendUrl3", url, title, message, normalizeUrl(url),
                 <<>>, <<>>, <<>>, <<>>, V_one, V_zero)

sendCritical(title, message) ==
    sendAdvanced("sendCritical", <<>>, title, message, <<>>, <<>>, <<>>, V_critical, <<>>, V_one, V_zero)

sendCall(title, message) ==
    send("sendCall", <<>>, title, message, (K_call :> V_one) @@ (K_archive :> V_one))

sendSilence(title, message) ==
    sendAdvanced("sendSilence", <<>>, title, message, <<>>, V_silence, <<>>, <<>>, <<>>, V_one, V_zero)

SendOps == {"send", "sendAdvanced", "sendCopy", "sendUrl", "sendUrl3",
            "sendCritical", "sendCall", "sendSilence"}

(***************************************************************************)
(* The client used by one thread: every public operation, with inputs      *)
(* from small sets.                                                        *)
(***************************************************************************)
MaxKeys == 1

\* "k1", "k2"
KEY_1 == <<107, 49>>
KEY_2 == <<107, 50>>
\* "Hi", "there"
TITLE_HI == <<72, 105>>
MESSAGE_THERE == <<116, 104, 101, 114, 101>>
\* "a.b"
URL_EXAMPLE == <<97, 46, 98>>

KeyInputs == {<<>>, KEY_1, KEY_2}

KeyVectors == UNION {[1..n -> KeyInputs] : n \in 0..MaxKeys}

Servers == {DEFAULT_BARK_SERVER}

UrlArgs == {<<>>, URL_EXAMPLE}

ConstructSingle ==
    \E key \in KeyInputs, server \in Servers, gres \in GlobalInitResults,
       easyOk \in BOOLEAN, results \in ResultChoices(DefaultOptions) :
        Construct("BarkPush", singleKey(key), server, gres, easyOk, results)

ConstructMulti ==
    \E keys \in KeyVectors, server \in Servers, gres \in GlobalInitResults,
       easyOk \in BOOLEAN, results \in ResultChoices(DefaultOptions) :
        Construct("BarkPushMulti", multiKeys(keys), server, gres, easyOk, results)

AddDeviceKey ==
    /\ phase = "live"
    /\ Len(device_keys_) < MaxKeys
    /\ \E key \in KeyInputs : device_keys_' = addDeviceKey(device_keys_, key)
    /\ call' = Op("addDeviceKey")
    /\ UNCHANGED <<phase, server_, curl_handle_, last_error_, http_status_code_, curl,
                   sslOff, process, threads>>

ClearDeviceKeys ==
    /\ phase = "live"
    /\ device_keys_' = clearDeviceKeys(device_keys_)
    /\ call' = Op("clearDeviceKeys")
    /\ UNCHANGED <<phase, server_, curl_handle_, last_error_, http_status_code_, curl,
                   sslOff, process, threads>>

GetDeviceKeys ==
    /\ phase = "live"
    \* the caller receives a copy: getDeviceKeys(device_keys_)
    /\ device_keys_' = getDeviceKeys(device_keys_)
    /\ call' = Op("getDeviceKeys")
    /\ UNCHANGED <<phase, server_, curl_handle_, last_error_, http_status_code_, curl,
                   sslOff, process, threads>>

SetDefaultOptions ==
    /\ phase = "live"
    /\ \E results \in ResultChoices(DefaultOptions) :
        LET st == setDefaultOptions(curl_handle_, [curl |-> curl, err |-> last_error_], results)
        IN  curl' = st.curl /\ last_error_' = st.err
    /\ sslOff' = FALSE
    /\ call' = Op("setDefaultOptions")
    /\ UNCHANGED <<phase, device_keys_, server_, curl_handle_, http_status_code_,
                   process, threads>>

DisableSslVerification ==
    /\ phase = "live"
    /\ \E results \in ResultChoices(DisableOptions) :
        LET st == disableSslVerification(curl_handle_, [curl |-> curl, err |-> last_error_], results)
        IN  curl' = st.curl /\ last_error_' = st.err
    /\ sslOff' = TRUE
    /\ call' = Op("disableSslVerification")
    /\ UNCHANGED <<phase, device_keys_, server_, curl_handle_, http_status_code_,
                   process, threads>>

Send ==
    \E url \in UrlArgs :
        send("send", url, TITLE_HI, MESSAGE_THERE,
             IF url = <<>> THEN EmptyMap ELSE (K_url :> url))

SendAdvanced ==
    \E url \in UrlArgs :
        sendAdvanced("sendAdvanced", url, TITLE_HI, MESSAGE_THERE, url,
                     <<>>, <<>>, <<>>, <<>>, V_one, V_zero)

SendCopy == sendCopy(TITLE_HI, MESSAGE_THERE)

SendUrl1 == \E url \in UrlArgs : sendUrl1(url)

SendUrl3 == \E url \in UrlArgs : sendUrl3(TITLE_HI, MESSAGE_THERE, url)

SendCritical == sendCritical(TITLE_HI, MESSAGE_THERE)

SendCall == sendCall(TITLE_HI, MESSAGE_THERE)

SendSilence == sendSilence(TITLE_HI, MESSAGE_THERE)

NoThreads == [i \in {} |-> "idle"]

Init ==
    /\ phase = "none"
    /\ device_keys_ = <<>>
    /\ server_ = <<>>
    /\ curl_handle_ = FALSE
    /\ last_error_ = <<>>
    /\ http_status_code_ = 0
    /\ curl = FreshHandle
    /\ initialized = FALSE
    /\ globalInits = 0
    /\ atexits = 0
    /\ tpc = NoThreads
    /\ tleft = NoThreads
    /\ sslOff = FALSE
    /\ call = NoCall

Next ==
    \/ ConstructSingle
    \/ ConstructMulti
    \/ Destroy
    \/ AddDeviceKey
    \/ ClearDeviceKeys
    \/ GetDeviceKeys
    \/ SetDefaultOptions
    \/ DisableSslVerification
    \/ Send
    \/ SendAdvanced
    \/ SendCopy
    \/ SendUrl1
    \/ SendUrl3
    \/ SendCritical
    \/ SendCall
    \/ SendSilence

Spec == Init /\ [][Next]_vars
(***************************************************************************)
(* Construction on several threads: initCurlGlobal step by step.  The      *)
(* static flag is a plain bool read and written without synchronisation,   *)
(* so the steps of different threads interleave.                           *)
(***************************************************************************)
NumThreads == 2

MaxConstructions == 2

Threads == 1..NumThreads

\* a constructor is entered: init() calls initCurlGlobal()
ThreadEnter(th) ==
    /\ tpc[th] = "idle"
    /\ tleft[th] > 0
    /\ tleft' = [tleft EXCEPT ![th] = @ - 1]
    /\ tpc' = [tpc EXCEPT ![th] = "test_flag"]
    /\ UNCHANGED <<client, process, history>>

\* if (!initialized)
ThreadTestFlag(th) ==
    /\ tpc[th] = "test_flag"
    /\ tpc' = [tpc EXCEPT ![th] = IF ~initialized THEN "global_init" ELSE "easy_init"]
    /\ UNCHANGED <<client, process, tleft, history>>

\* curl_global_init(CURL_GLOBAL_DEFAULT); on failure init() throws
ThreadGlobalInit(th) ==
    /\ tpc[th] = "global_init"
    /\ \E res \in GlobalInitResults :
        IF res # "CURLE_OK"
        THEN /\ tpc' = [tpc EXCEPT ![th] = "idle"]
             /\ UNCHANGED globalInits
        ELSE /\ tpc' = [tpc EXCEPT ![th] = "set_flag"]
             /\ globalInits' = globalInits + 1
    /\ UNCHANGED <<client, initialized, atexits, tleft, history>>

\* initialized = true
ThreadSetFlag(th) ==
    /\ tpc[th] = "set_flag"
    /\ initialized' = TRUE
    /\ tpc' = [tpc EXCEPT ![th] = "atexit"]
    /\ UNCHANGED <<client, globalInits, atexits, tleft, history>>

\* std::atexit(curl_global_cleanup)
ThreadAtexit(th) ==
    /\ tpc[th] = "atexit"
    /\ atexits' = atexits + 1
    /\ tpc' = [tpc EXCEPT ![th] = "easy_init"]
    /\ UNCHANGED <<client, initialized, globalInits, tleft, history>>

\* the rest of init(): curl_easy_init and setDefaultOptions on the new object
ThreadEasyInit(th) ==
    /\ tpc[th] = "easy_init"
    /\ tpc' = [tpc EXCEPT ![th] = "idle"]
    /\ UNCHANGED <<client, process, tleft, history>>

InitThreads ==
    /\ phase = "none"
    /\ device_keys_ = <<>>
    /\ server_ = <<>>
    /\ curl_handle_ = FALSE
    /\ last_error_ = <<>>
    /\ http_status_code_ = 0
    /\ curl = FreshHandle
    /\ initialized = FALSE
    /\ globalInits = 0
    /\ atexits = 0
    /\ tpc = [th \in Threads |-> "idle"]
    /\ tleft = [th \in Threads |-> MaxConstructions]
    /\ sslOff = FALSE
    /\ call = NoCall

NextThreads ==
    \E th \in Threads :
        \/ ThreadEnter(th)
        \/ ThreadTestFlag(th)
        \/ ThreadGlobalInit(th)
        \/ ThreadSetFlag(th)
        \/ ThreadAtexit(th)
        \/ ThreadEasyInit(th)

SpecThreads == InitThreads /\ [][NextThreads]_vars

(***************************************************************************)
(* One call on a freshly constructed client, for the pure parts of send:   *)
(* the initial state holds the caller's input, the action makes the call.  *)
(***************************************************************************)
AllOk(options) == [i \in 1..Len(options) |-> "CURLE_OK"]

\* the client BarkPush("k1") after a construction in which nothing failed
FreshClient(input) ==
    /\ phase = "live"
    /\ device_keys_ = singleKey(KEY_1)
    /\ server_ = DEFAULT_BARK_SERVER
    /\ curl_handle_ = TRUE
    /\ last_error_ = <<>>
    /\ http_status_code_ = 0
    /\ curl = setDefaultOptions(TRUE, [curl |-> FreshHandle, err |-> <<>>],
                                AllOk(DefaultOptions)).curl
    /\ initialized = TRUE
    /\ globalInits = 1
    /\ atexits = 1
    /\ tpc = NoThreads
    /\ tleft = NoThreads
    /\ sslOff = FALSE
    /\ call = input

Texts(alphabet, n) == UNION {[1..k -> alphabet] : k \in 0..n}

\* --- url arguments ---
MaxUrlTail == 2

\* 'a', '/', ':'
UrlAlphabet == {97, 47, 58}

\* "", "http://", "https://", "http:/", "https:/", "ttp://", "HTTP://", "ftp://"
UrlPrefixes ==
    {<<>>, http_prefix, https_prefix,
     SubSeq(http_prefix, 1, 6), SubSeq(https_prefix, 1, 7), Tail(http_prefix),
     <<72, 84, 84, 80, 58, 47, 47>>, <<102, 116, 112, 58, 47, 47>>}

\* "example.com/page"
URL_PAGE == <<101, 120, 97, 109, 112, 108, 101, 46, 99, 111, 109, 47, 112, 97, 103, 101>>

UrlInputs == {URL_PAGE} \cup {p \o t : p \in UrlPrefixes, t \in Texts(UrlAlphabet, MaxUrlTail)}

InitUrl == \E url \in UrlInputs : FreshClient([Op("input") EXCEPT !.arg = url])

UrlSend ==
    /\ call.op = "input"
    /\ send("send", call.arg, TITLE_HI, MESSAGE_THERE, (K_url :> call.arg))

UrlSendAdvanced ==
    /\ call.op = "input"
    /\ sendAdvanced("sendAdvanced", call.arg, TITLE_HI, MESSAGE_THERE, call.arg,
                    <<>>, <<>>, <<>>, <<>>, V_one, V_zero)

UrlSendUrl1 == call.op = "input" /\ sendUrl1(call.arg)

UrlSendUrl3 == call.op = "input" /\ sendUrl3(TITLE_HI, MESSAGE_THERE, call.arg)

NextUrl == UrlSend \/ UrlSendAdvanced \/ UrlSendUrl1 \/ UrlSendUrl3

SpecUrl == InitUrl /\ [][NextUrl]_vars

\* --- extra parameter values ---
MaxValueLen == 3

\* '0', '1', '+', '-', '.', 'e', 'a'
ValueAlphabet == {48, 49, 43, 45, 46, 101, 97}

\* "42", "3.14e-2", "abc", "1.2.3"
VALUE_42 == <<52, 50>>
VALUE_3_14e_2 == <<51, 46, 49, 52, 101, 45, 50>>
VALUE_abc == <<97, 98, 99>>
VALUE_1_2_3 == <<49, 46, 50, 46, 51>>
\* "badge", the name the value is sent under
K_badge == <<98, 97, 100, 103, 101>>

ParamValues ==
    {LIT_true, LIT_false, VALUE_42, VALUE_3_14e_2, VALUE_abc, VALUE_1_2_3}
    \cup Texts(ValueAlphabet, MaxValueLen)

InitParam == \E v \in ParamValues : FreshClient([Op("input") EXCEPT !.arg = v])

ParamSend ==
    /\ call.op = "input"
    /\ send("send", call.arg, TITLE_HI, MESSAGE_THERE, (K_badge :> call.arg))

NextParam == ParamSend

SpecParam == InitParam /\ [][NextParam]_vars

\* --- titles and messages ---
MaxTextLen == 2

\* the seven characters escapeJson names, two other control characters
\* (0x00, 0x1f), the first character past them (0x20), 'u', and a byte >= 0x80
TextAlphabet == {34, 92, 8, 12, 10, 13, 9, 0, 31, 32, 117, 200}

InitText ==
    \E text \in Texts(TextAlphabet, MaxTextLen) :
        \E k \in 0..Len(text) :
            FreshClient([Op("input") EXCEPT !.title = SubSeq(text, 1, k),
                                            !.message = SubSeq(text, k + 1, Len(text))])

TextSend ==
    /\ call.op = "input"
    /\ send("send", <<>>, call.title, call.message, EmptyMap)

TextSendCopy ==
    /\ call.op = "input"
    /\ sendCopy(call.title, call.message)

NextText == TextSend \/ TextSendCopy

SpecText == InitText /\ [][NextText]_vars

(***************************************************************************)
(* JSON as RFC 8259 defines it (without insignificant whitespace): what a  *)
(* receiver of the request body accepts and reads back.  Positions are     *)
(* indices into the text; 0 stands for "not JSON".                         *)
(***************************************************************************)
IsHex(c) == c \in (48..57) \cup (97..102) \cup (65..70)

HexVal(c) == IF c \in 48..57 THEN c - 48 ELSE IF c \in 97..102 THEN c - 87 ELSE c - 55

\* s[i..] begins with lit
StartsAt(s, i, lit) == i + Len(lit) - 1 <= Len(s) /\ SubSeq(s, i, i + Len(lit) - 1) = lit

\* the index of the quote closing the string whose content starts at i
RECURSIVE JsonStringEnd(_, _)
JsonStringEnd(s, i) ==
    IF i > Len(s) THEN 0
    ELSE IF s[i] = 34 THEN i
    ELSE IF s[i] < 32 THEN 0
    ELSE IF s[i] # 92 THEN JsonStringEnd(s, i + 1)
    ELSE IF i + 1 > Len(s) THEN 0
    ELSE IF s[i + 1] \in {34, 92, 47, 98, 102, 110, 114, 116} THEN JsonStringEnd(s, i + 2)
    ELSE IF s[i + 1] = 117 /\ i + 5 <= Len(s) /\ (\A j \in 2..5 : IsHex(s[i + j]))
         THEN JsonStringEnd(s, i + 6)
    ELSE 0

\* the character a two-character escape stands for
JsonEscaped(c) ==
    CASE c = 98 -> 8 [] c = 102 -> 12 [] c = 110 -> 10 [] c = 114 -> 13 [] c = 116 -> 9
      [] OTHER -> c

\* the bytes the string content s[i..j] stands for (code points below 128)
RECURSIVE JsonUnescape(_, _, _)
JsonUnescape(s, i, j) ==
    IF i > j THEN <<>>
    ELSE IF s[i] # 92 THEN <<s[i]>> \o JsonUnescape(s, i + 1, j)
    ELSE IF s[i + 1] = 117
         THEN <<4096 * HexVal(s[i + 2]) + 256 * HexVal(s[i + 3])
                + 16 * HexVal(s[i + 4]) + HexVal(s[i + 5])>> \o JsonUnescape(s, i + 6, j)
    ELSE <<JsonEscaped(s[i + 1])>> \o JsonUnescape(s, i + 2, j)

\* the index after the digits that start at i
RECURSIVE DigitsEnd(_, _)
DigitsEnd(s, i) == IF i <= Len(s) /\ IsDigit(s[i]) THEN DigitsEnd(s, i + 1) ELSE i

\* the index after an optional exponent at i
JsonExpEnd(s, i) ==
    IF i <= Len(s) /\ s[i] \in {101, 69}
    THEN LET d == IF i + 1 <= Len(s) /\ s[i + 1] \in {43, 45} THEN i + 2 ELSE i + 1
         IN  IF DigitsEnd(s, d) > d THEN DigitsEnd(s, d) ELSE 0
    ELSE i

\* the index after an optional fraction at i, then an optional exponent
JsonFracEnd(s, i) ==
    IF i <= Len(s) /\ s[i] = 46
    THEN IF DigitsEnd(s, i + 1) > i + 1 THEN JsonExpEnd(s, DigitsEnd(s, i + 1)) ELSE 0
    ELSE JsonExpEnd(s, i)

\* number = [ minus ] int [ frac ] [ exp ], int = zero / ( digit1-9 *DIGIT )
JsonNumberEnd(s, i) ==
    LET d == IF i <= Len(s) /\ s[i] = 45 THEN i + 1 ELSE i
    IN  IF d > Len(s) \/ ~IsDigit(s[d]) THEN 0
        ELSE IF s[d] = 48 THEN JsonFracEnd(s, d + 1)
        ELSE JsonFracEnd(s, DigitsEnd(s, d))

RECURSIVE JsonValueEnd(_, _)
RECURSIVE JsonElementsEnd(_, _)
RECURSIVE JsonMembersEnd(_, _)

\* the index after the value that starts at i
JsonValueEnd(s, i) ==
    IF i > Len(s) THEN 0
    ELSE IF s[i] = 34
         THEN (IF JsonStringEnd(s, i + 1) = 0 THEN 0 ELSE JsonStringEnd(s, i + 1) + 1)
    ELSE IF s[i] = 91
         THEN (IF i + 1 <= Len(s) /\ s[i + 1] = 93 THEN i + 2 ELSE JsonElementsEnd(s, i + 1))
    ELSE IF s[i] = 123
         THEN (IF i + 1 <= Len(s) /\ s[i + 1] = 125 THEN i + 2 ELSE JsonMembersEnd(s, i + 1))
    ELSE IF StartsAt(s, i, LIT_true) THEN i + 4
    ELSE IF StartsAt(s, i, LIT_false) THEN i + 5
    ELSE IF StartsAt(s, i, <<110, 117, 108, 108>>) THEN i + 4
    ELSE JsonNumberEnd(s, i)

\* after the value at e: a comma and more, or the closing character
JsonAfterItem(s, e, close, more(_, _)) ==
    IF e = 0 \/ e > Len(s) THEN 0
    ELSE IF s[e] = 44 THEN more(s, e + 1)
    ELSE IF s[e] = close THEN e + 1
    ELSE 0

\* the index after the array whose first element starts at i
JsonElementsEnd(s, i) == JsonAfterItem(s, JsonValueEnd(s, i), 93, JsonElementsEnd)

\* the index after the colon of the member whose name starts at i
JsonNameEnd(s, i) ==
    IF i > Len(s) \/ s[i] # 34 THEN 0
    ELSE LET q == JsonStringEnd(s, i + 1)
         IN  IF q = 0 \/ q + 1 > Len(s) \/ s[q + 1] # 58 THEN 0 ELSE q + 2

\* the index after the object whose first member starts at i
JsonMembersEnd(s, i) ==
    IF JsonNameEnd(s, i) = 0 THEN 0
    ELSE JsonAfterItem(s, JsonValueEnd(s, JsonNameEnd(s, i)), 125, JsonMembersEnd)

IsJson(s) == s # <<>> /\ JsonValueEnd(s, 1) = Len(s) + 1

IsJsonString(s) == IsJson(s) /\ s[1] = 34

\* the text a JSON string literal stands for
JsonStringValue(s) == JsonUnescape(s, 2, Len(s) - 1)

\* the text of the value of the first member called name among the members
\* that start at i of a valid object; <<>> when there is none
RECURSIVE JsonMemberText(_, _, _)
JsonMemberText(s, i, name) ==
    IF i > Len(s) \/ JsonNameEnd(s, i) = 0 THEN <<>>
    ELSE LET v == JsonNameEnd(s, i)
             e == JsonValueEnd(s, v)
         IN  IF e = 0 THEN <<>>
             ELSE IF JsonUnescape(s, i + 1, v - 3) = name THEN SubSeq(s, v, e - 1)
             ELSE IF e <= Len(s) /\ s[e] = 44 THEN JsonMemberText(s, e + 1, name)
             ELSE <<>>

JsonField(s, name) == IF IsJson(s) /\ s[1] = 123 THEN JsonMemberText(s, 2, name) ELSE <<>>

(***************************************************************************)
(* The properties checked.                                                 *)
(***************************************************************************)
\* "title", "body"
F_title == <<116, 105, 116, 108, 101>>
F_body == <<98, 111, 100, 121>>
\* "500"
TEXT_500 == <<53, 48, 48>>

\* C1: whenever a send or a convenience variant has just been called on a
\* client whose device-key list is empty, it returned NO_DEVICES_SPECIFIED
\* (not CURL_INIT_FAILED), made no transfer, left the status code at 0 and
\* recorded a non-empty reason.
C1_NoDevicesRefused ==
    (call.op \in SendOps /\ device_keys_ = <<>>)
        => /\ call.ret = "NO_DEVICES_SPECIFIED"
           /\ call.performs = 0
           /\ http_status_code_ = 0
           /\ last_error_ # <<>>

\* a variant refused on a client that had delivered before its keys were cleared
C1_Witness ==
    /\ call.op = "sendSilence"
    /\ device_keys_ = <<>>
    /\ call.ret = "NO_DEVICES_SPECIFIED"
    /\ curl["CURLOPT_URL"] # <<>>

\* C2: a send that passes both preconditions makes one transfer and returns
\* NETWORK_ERROR (status code 0) when the transfer fails, HTTP_ERROR (status
\* code stored, text holding the status and the response) when the status is
\* not 200, EMPTY_RESPONSE for 200 with no body and SUCCESS for 200 with a
\* body; no operation returns INVALID_URL.
C2_Outcome ==
    /\ call.ret # "INVALID_URL"
    /\ (call.op \in SendOps /\ device_keys_ # <<>> /\ curl_handle_)
        => /\ call.performs = 1
           /\ IF call.res # "CURLE_OK"
              THEN call.ret = "NETWORK_ERROR" /\ http_status_code_ = 0
              ELSE IF call.status # 200
              THEN /\ call.ret = "HTTP_ERROR"
                   /\ http_status_code_ = call.status
                   /\ Contains(last_error_, to_string(call.status))
                   /\ Contains(last_error_, call.resp)
              ELSE IF call.resp = <<>>
              THEN call.ret = "EMPTY_RESPONSE" /\ http_status_code_ = 200
              ELSE call.ret = "SUCCESS" /\ http_status_code_ = 200

\* HTTP 500 with the body "server error"
C2_Witness ==
    /\ call.op = "send"
    /\ call.ret = "HTTP_ERROR"
    /\ http_status_code_ = 500
    /\ Contains(last_error_, TEXT_500)
    /\ Contains(last_error_, RESP_SERVER_ERROR)

\* C3: whenever send has returned SUCCESS, getLastError() is empty.
C3_SuccessClearsError == call.ret = "SUCCESS" => last_error_ = <<>>

\* the text and the status code the outcome of the send recorded in c calls for
OutcomeError(c) ==
    CASE c.ret = "NO_DEVICES_SPECIFIED" -> ERR_NO_DEVICES
      [] c.ret = "CURL_INIT_FAILED"     -> ERR_NO_HANDLE
      [] c.ret = "NETWORK_ERROR"        -> ERR_CURL \o curl_easy_strerror(c.res)
      [] c.ret = "HTTP_ERROR"           -> ERR_HTTP \o to_string(c.status) \o ERR_HTTP_RESPONSE \o c.resp
      [] c.ret = "EMPTY_RESPONSE"       -> ERR_EMPTY
      [] OTHER                          -> <<>>

OutcomeStatus(c) == IF c.performs = 1 /\ c.res = "CURLE_OK" THEN c.status ELSE 0

\* C4: once a send has completed, getLastError() and getLastHttpStatusCode()
\* are those of the last send: every send sets both from its own outcome,
\* and between sends no other operation on the client changes either.
C4_OnlySendWrites ==
    [][/\ (call'.op \in SendOps /\ call'.ret # "SUCCESS")
            => /\ last_error_' = OutcomeError(call')
               /\ http_status_code_' = OutcomeStatus(call')
       /\ (call.op \in SendOps /\ phase' = "live" /\ call'.op \notin SendOps)
            => /\ last_error_' = last_error_
               /\ http_status_code_' = http_status_code_]_vars

\* C5: the device-key list never holds an empty string, whichever
\* constructor made the client; addDeviceKey appends a non-empty key at the
\* end and ignores an empty one, and clearDeviceKeys empties the list.
C5_NoEmptyKey ==
    [][/\ phase' = "live" => \A i \in 1..Len(device_keys_') : device_keys_'[i] # <<>>
       /\ call'.op = "addDeviceKey"
            => \E key \in KeyInputs :
                device_keys_' = IF key # <<>> THEN Append(device_keys_, key) ELSE device_keys_
       /\ call'.op = "clearDeviceKeys" => device_keys_' = <<>>]_vars

\* C6: however many constructions run, on however many threads,
\* curl_global_init succeeds once and curl_global_cleanup is registered once.
C6_InitOnce ==
    /\ globalInits <= 1
    /\ atexits <= 1
    /\ initialized => globalInits = 1
    /\ (initialized /\ \A th \in DOMAIN tpc : tpc[th] = "idle") => atexits = 1

\* the url member of a request body, and what it must be for argument x
UrlOnWire(op, x, n, body) ==
    IF op = "send" \/ x # <<>>
    THEN /\ IsJsonString(JsonField(body, K_url))
         /\ JsonStringValue(JsonField(body, K_url)) = n
    ELSE JsonField(body, K_url) = <<>>

NormalizeFacts(x, n) ==
    /\ normalizeUrl(n) = n
    /\ (x = <<>> \/ StartsWith(x, http_prefix) \/ StartsWith(x, https_prefix)) => n = x
    /\ ~(x = <<>> \/ StartsWith(x, http_prefix) \/ StartsWith(x, https_prefix))
          => n = https_prefix \o x

\* C7: normalizeUrl is idempotent; it returns the empty string and a string
\* that starts with "http://" or "https://" unchanged and puts "https://"
\* before any other; the url member of the request body is the normalized
\* argument whether send, sendAdvanced or sendUrl passed it on (and sendUrl(url)
\* sends it as the message too).
C7_Normalize ==
    /\ NormalizeFacts(call.arg, normalizeUrl(call.arg))
    /\ call.performs = 1
        => /\ UrlOnWire(call.op, call.arg, normalizeUrl(call.arg), call.reqBody)
           /\ call.op = "sendUrl"
                => JsonStringValue(JsonField(call.reqBody, F_body)) = normalizeUrl(call.arg)

\* sendUrl("example.com/page")
C7_Witness ==
    /\ call.op = "sendUrl"
    /\ call.arg = URL_PAGE
    /\ call.performs = 1
    /\ JsonStringValue(JsonField(call.reqBody, K_url)) = https_prefix \o URL_PAGE
    /\ JsonStringValue(JsonField(call.reqBody, F_body)) = https_prefix \o URL_PAGE

\* optional sign, digits, optional fractional part, optional exponent
ClaimedNumber(v) ==
    /\ v # <<>>
    /\ LET a == IF v[1] \in {43, 45} THEN 2 ELSE 1
       IN  DigitsEnd(v, a) > a /\ JsonFracEnd(v, DigitsEnd(v, a)) = Len(v) + 1

\* the text send wrote for the one extra parameter of the call: what stands
\* between ,"badge": and the closing brace
EmittedValue(body, base) == SubSeq(body, Len(base) + Len(K_badge) + 4, Len(body) - 1)

ValueAsClaimed(v, emitted) ==
    /\ v \in {LIT_true, LIT_false} => emitted = v
    /\ (v \notin {LIT_true, LIT_false} /\ ClaimedNumber(v)) => emitted = v
    /\ (v \notin {LIT_true, LIT_false} /\ ~ClaimedNumber(v))
          => IsJsonString(emitted) /\ JsonStringValue(emitted) = v
    /\ emitted = v => IsJson(emitted)

\* C8: send writes an extra parameter bare when it is "true" or "false" or
\* a number (optional sign, digits, optional fraction, optional exponent),
\* quoted and escaped otherwise, and what it writes bare is a JSON value.
C8_ValueEmission ==
    call.performs = 1
        => ValueAsClaimed(call.arg,
                          EmittedValue(call.reqBody,
                                       buildJson(device_keys_, call.title, call.message, EmptyMap)))

\* what escapeJson writes for every byte
EscapeTable ==
    \A c \in 0..255 :
        IF c \in {34, 92} THEN escapeChar(c) = <<92, c>>
        ELSE IF c \in {8, 12, 10, 13, 9}
        THEN /\ Len(escapeChar(c)) = 2
             /\ escapeChar(c)[1] = 92
             /\ JsonEscaped(escapeChar(c)[2]) = c
        ELSE IF c <= 31
        THEN /\ Len(escapeChar(c)) = 6
             /\ SubSeq(escapeChar(c), 1, 4) = <<92, 117, 48, 48>>
             /\ \A i \in 5..6 : escapeChar(c)[i] \in (48..57) \cup (97..102)
             /\ 16 * HexVal(escapeChar(c)[5]) + HexVal(escapeChar(c)[6]) = c
        ELSE escapeChar(c) = <<c>>

\* C9: the request body send builds from a title and a message with quotes,
\* backslashes and control characters is JSON whose title and body members
\* read back as the title and the message; escapeJson writes the seven named
\* characters as two-character escapes, any other control character as \u00
\* and two lowercase hex digits, and every other byte as it is.
C9_RoundTrip ==
    /\ EscapeTable
    /\ call.performs = 1
        => /\ IsJson(call.reqBody)
           /\ IsJsonString(JsonField(call.reqBody, F_title))
           /\ JsonStringValue(JsonField(call.reqBody, F_title)) = call.title
           /\ IsJsonString(JsonField(call.reqBody, F_body))
           /\ JsonStringValue(JsonField(call.reqBody, F_body)) = call.message

\* a title of 0x1f and a backslash, a message of a quote
C9_Witness ==
    /\ call.op = "send"
    /\ call.performs = 1
    /\ call.title = <<31, 92>>
    /\ call.message = <<>>
    /\ IsJson(call.reqBody)

====
